---- MODULE Spec2Model ----
(* Remote dimmer controllers of shelly-collection.                         *)
(*                                                                         *)
(*   Spec      DimmerController (src/unnamed/part_000, lines 1-382): one   *)
(*             binding {"0": down, "1": up}, device-side ramp.             *)
(*             Every request to the device succeeds.                       *)
(*   SpecFail  Spec, and a request may fail (httpOk false).                *)
(*   SpecLoop  client-driven step loop (src/unnamed/part_001).             *)
(*                                                                         *)
(* The program state is the controller's fields, the HTTP requests in      *)
(* flight (Shelly.call "http.get"), the pending timers (Timer.set) and the *)
(* clock (Date.now()).  The remaining variables are history variables that *)
(* record what was sent and which transitions were taken.                  *)
EXTENDS Integers, Sequences, FiniteSets, TLC

VARIABLES
    state,              \* this._state / DATA.state
    inputTriggerTime,   \* this._inputTriggerTime / DATA.inputTriggerTime
    dimmerAction,       \* this._dimmerAction / DATA.dimmerAction
    lightStatus,        \* this._lightStatus (body.ison or "null") / DATA.lightIsOn
    brightness,         \* DATA.brightness (part_001)
    timerHandle,        \* DATA.timerHandle (part_001): 0 = null
    requests,           \* HTTP requests in flight, in order of issue
    timers,             \* pending timers, in order of arming
    nextHandle,         \* next handle Timer.set returns
    now,                \* Date.now()
    btn,                \* physical state of the input channels
    presses,            \* history: number of presses handled so far
    pressTime,          \* history: time of the most recent press
    pressCh,            \* history: channel of the most recent press
    rel,                \* history: the releases since the most recent press
    log,                \* history: requests sent since the most recent press
    last,               \* history: what the last handler that ran did
    configurations,     \* getConfiguration: the parsed binding list
    toProcess,          \* getConfiguration: the pending count
    lookups,            \* KVS.Get calls in flight, in order of issue
    ready,              \* history: how often getConfiguration called back
    controllers,        \* main: the DimmerControllers constructed
    handlers            \* main: the status handlers registered

vars == <<state, inputTriggerTime, dimmerAction, lightStatus, brightness,
          timerHandle, requests, timers, nextHandle, now, btn, presses,
          pressTime, pressCh, rel, log, last, configurations, toProcess,
          lookups, ready, controllers, handlers>>

\* the variables of main and getConfiguration
mainVars == <<configurations, toProcess, lookups, ready, controllers, handlers>>

(* Program constants *)

LONG_PUSH_TIME == 500

STATES == {"IDLE", "GET_LIGHT_STATUS", "WAITING_FOR_LONG_PUSH",
           "ENSURE_LIGHT_IS_ON", "DIMMING"}

TRANSITIONS ==
    [s \in STATES |->
        CASE s = "IDLE"                  -> {"GET_LIGHT_STATUS", "IDLE"}
          [] s = "GET_LIGHT_STATUS"      -> {"WAITING_FOR_LONG_PUSH", "IDLE"}
          [] s = "WAITING_FOR_LONG_PUSH" -> {"ENSURE_LIGHT_IS_ON", "IDLE"}
          [] s = "ENSURE_LIGHT_IS_ON"    -> {"DIMMING", "IDLE"}
          [] s = "DIMMING"               -> {"DIMMING", "IDLE"}]

\* the button map of the example configuration's first binding
inputMapping == [c \in {"0", "1"} |-> IF c = "0" THEN "down" ELSE "up"]

Channels == DOMAIN inputMapping

(* Bounds of the model *)

MaxPresses == 2      \* presses in one behaviour
MaxTicks == 3        \* clock steps in one behaviour
MaxInFlight == 2     \* a press is taken only with fewer requests in flight
MaxTicksLoop == 5    \* clock steps in one behaviour of the step loop
MaxTicksRamp == 12   \* ticks of the repeating timer in one ramp
MaxTicksLate == 4    \* clock steps in one behaviour with two long presses

TickMs == LONG_PUSH_TIME \div 2
StartTime == 2 * LONG_PUSH_TIME
MaxTime == StartTime + MaxTicks * TickMs
MaxTimeLoop == StartTime + MaxTicksLoop * TickMs

Max(a, b) == IF a >= b THEN a ELSE b
Min(a, b) == IF a <= b THEN a ELSE b

RemoveAt(s, i) == [j \in 1..(Len(s) - 1) |-> IF j < i THEN s[j] ELSE s[j + 1]]

(* ------------------------------------------------------------------------ *)
(* DimmerController (part_000).  A handler runs to completion; it is modelled *)
(* as a function on the record m of everything it may change.                *)

\* the controller's fields and the effects of the running handler
M ==
    [state |-> state, inputTriggerTime |-> inputTriggerTime,
     dimmerAction |-> dimmerAction, lightStatus |-> lightStatus,
     inputMapping |-> inputMapping,
     requests |-> requests, timers |-> timers,
     edges |-> <<>>, rejects |-> <<>>, sent |-> <<>>]

\* Shelly.call("http.get", ...): the request is in flight until its callback runs.
\* kind/arg are the endpoint ("light/0", "light/0?turn=arg", "light/0?dim=arg"),
\* cb is the callback the caller passed; cur (history) says that it was sent
\* after the most recent press.
sendRequest(m, kind, arg, cb) ==
    [m EXCEPT !.requests = Append(@, [kind |-> kind, arg |-> arg, cb |-> cb,
                                      cur |-> TRUE]),
              !.sent = Append(@, IF kind = "status" THEN "status" ELSE arg)]

getLightStatus(m, cb) == sendRequest(m, "status", "", cb)

switchLight(m, action, cb) == sendRequest(m, "turn", action, cb)

dimLight(m, action, cb) == sendRequest(m, "dim", action, cb)

\* mutant: the entry action of IDLE resets nothing
enterIdleNoReset(m) == m

enterIdle(m) ==
    [m EXCEPT !.inputTriggerTime = 0, !.dimmerAction = "stop"]

enterGetLightStatus(m) == getLightStatus(m, "toWaiting")

\* mutant: the delay is not clamped to at least 1 ms
enterWaitingForLongPushNoClamp(m) ==
    [m EXCEPT !.timers =
        Append(@, [due |-> now + (LONG_PUSH_TIME - (now - m.inputTriggerTime)),
                   cur |-> TRUE])]

\* mutant: the time the status fetch took is not subtracted
enterWaitingForLongPushFixed(m) ==
    [m EXCEPT !.timers =
        Append(@, [due |-> now + LONG_PUSH_TIME, cur |-> TRUE])]

enterWaitingForLongPush(m) ==
    [m EXCEPT !.timers =
        Append(@, [due |-> now + Max(1, LONG_PUSH_TIME - (now - m.inputTriggerTime)),
                   cur |-> TRUE])]

enterDimming(m) == dimLight(m, m.dimmerAction, "none")

\* mutant: the table is consulted with source and target swapped
RejectedSwapped(m, s) == m.state # "null" /\ m.state \notin TRANSITIONS[s]

\* the guard of transitionTo: the request is ignored
Rejected(m, s) == m.state # "null" /\ s \notin TRANSITIONS[m.state]

RECURSIVE transitionTo(_, _)

\* mutant: the else is missing, DIMMING is entered without waiting for turn=on
enterEnsureLightIsOnNoElse(m) ==
    CASE m.lightStatus = "null" -> m
      [] m.lightStatus = "off"  ->
            transitionTo(switchLight(m, "on", "toDimming"), "DIMMING")
      [] OTHER                  -> transitionTo(m, "DIMMING")

\* mutant: the test of ison is inverted
enterEnsureLightIsOnInverted(m) ==
    CASE m.lightStatus = "null" -> m
      [] m.lightStatus = "on"   -> switchLight(m, "on", "toDimming")
      [] OTHER                  -> transitionTo(m, "DIMMING")

\* with this._lightStatus still null, reading .ison throws and the handler ends
enterEnsureLightIsOn(m) ==
    CASE m.lightStatus = "null" -> m
      [] m.lightStatus = "off"  -> switchLight(m, "on", "toDimming")
      [] OTHER                  -> transitionTo(m, "DIMMING")

transitionTo(m, s) ==
    IF Rejected(m, s)
    THEN [m EXCEPT !.rejects = Append(@, <<m.state, s>>)]
    ELSE LET m1 == [m EXCEPT !.state = s, !.edges = Append(@, <<m.state, s>>)]
         IN  CASE s = "GET_LIGHT_STATUS"      -> enterGetLightStatus(m1)
               [] s = "WAITING_FOR_LONG_PUSH" -> enterWaitingForLongPush(m1)
               [] s = "ENSURE_LIGHT_IS_ON"    -> enterEnsureLightIsOn(m1)
               [] s = "DIMMING"               -> enterDimming(m1)
               [] s = "IDLE"                  -> enterIdle(m1)
               [] OTHER                       -> m1

\* mutant: the timestamp and the direction are recorded before the reset to IDLE
handlePressRecordFirst(m, c) ==
    LET m1 == [m EXCEPT !.inputTriggerTime = now,
                        !.dimmerAction = m.inputMapping[c]]
        m2 == IF m1.state # "IDLE" THEN transitionTo(m1, "IDLE") ELSE m1
    IN  transitionTo(m2, "GET_LIGHT_STATUS")

\* mutant: the press does not record the direction of its channel
handlePressKeepAction(m, c) ==
    LET m1 == IF m.state # "IDLE" THEN transitionTo(m, "IDLE") ELSE m
        m2 == [m1 EXCEPT !.inputTriggerTime = now]
    IN  transitionTo(m2, "GET_LIGHT_STATUS")

\* handleInputEvent, e.delta.state === true, on mapped channel c
handlePress(m, c) ==
    LET m1 == IF m.state # "IDLE" THEN transitionTo(m, "IDLE") ELSE m
        m2 == [m1 EXCEPT !.inputTriggerTime = now,
                         !.dimmerAction = m.inputMapping[c]]
    IN  transitionTo(m2, "GET_LIGHT_STATUS")

\* mutant: the last branch is missing, a release in IDLE or ENSURE_LIGHT_IS_ON
\* is treated like a release in DIMMING
handleReleaseStopElse(m) ==
    IF m.state \in {"WAITING_FOR_LONG_PUSH", "GET_LIGHT_STATUS"}
    THEN switchLight(m, "toggle", "toIdle")
    ELSE dimLight(m, "stop", "toIdle")

\* handleInputEvent, e.delta.state === false, on a mapped channel
handleRelease(m) ==
    IF m.state \in {"WAITING_FOR_LONG_PUSH", "GET_LIGHT_STATUS"}
    THEN switchLight(m, "toggle", "toIdle")
    ELSE IF m.state = "DIMMING"
         THEN dimLight(m, "stop", "toIdle")
         ELSE transitionTo(m, "IDLE")

\* the callback of the request r, run with a 2xx response whose body says ison
onResponse(m, r, ison) ==
    CASE r.cb = "toWaiting" ->
            transitionTo([m EXCEPT !.lightStatus = ison], "WAITING_FOR_LONG_PUSH")
      [] r.cb = "toDimming" ->
            transitionTo([m EXCEPT !.lightStatus = ison], "DIMMING")
      [] r.cb = "toIdle" /\ r.kind = "turn" ->
            transitionTo([m EXCEPT !.lightStatus = ison], "IDLE")
      [] r.cb = "toIdle" /\ r.kind = "dim" ->
            transitionTo(m, "IDLE")
      [] OTHER -> m

\* the bodies a 2xx response to r can carry
Bodies(r) == IF r.kind = "turn" /\ r.arg = "on" THEN {"on"} ELSE {"on", "off"}

(* ------------------------------------------------------------------------ *)
(* Steps of the DimmerController model *)

NoReq == [kind |-> "", arg |-> "", cb |-> "", cur |-> TRUE]
NoTimer == [due |-> 0, cur |-> TRUE]

\* history: a press makes everything sent or armed before it stale
Stale(q) == [i \in 1..Len(q) |-> [q[i] EXCEPT !.cur = FALSE]]

\* the record of a step: the handler that ran (for a response, the callback cb),
\* whether the request or timer it belongs to is of the current press, the
\* transitions it made, the transition requests that were ignored and the
\* number of requests it sent
Step(act, r, t, m) ==
    [act |-> act, cb |-> r.cb, cur |-> r.cur /\ t.cur,
     edges |-> m.edges, rejects |-> m.rejects, n |-> Len(m.sent)]

\* history: the body of the status fetch of the current press, as it arrives
Fetched(r, b) == IF r.kind = "status" /\ r.cur THEN <<"is_" \o b>> ELSE <<>>

\* the handler's result becomes the controller's state
Commit(m) ==
    /\ state' = m.state
    /\ inputTriggerTime' = m.inputTriggerTime
    /\ dimmerAction' = m.dimmerAction
    /\ lightStatus' = m.lightStatus
    /\ requests' = m.requests
    /\ timers' = m.timers
    /\ UNCHANGED mainVars

\* the single-controller models start with the controller constructed; main
\* and getConfiguration are not part of them
NoMain ==
    /\ configurations = <<>>
    /\ toProcess = 0
    /\ lookups = <<>>
    /\ ready = 0
    /\ controllers = <<>>
    /\ handlers = <<>>

Init ==
    /\ state = "null"
    /\ inputTriggerTime = 0
    /\ dimmerAction = "stop"
    /\ lightStatus = "null"
    /\ brightness = 0
    /\ timerHandle = 0
    /\ nextHandle = 1
    /\ requests = <<>>
    /\ timers = <<>>
    /\ now = StartTime
    /\ btn = [c \in Channels |-> FALSE]
    /\ presses = 0
    /\ pressTime = 0
    /\ pressCh = ""
    /\ rel = <<>>
    /\ log = <<>>
    /\ last = [act |-> "init", cb |-> "", cur |-> TRUE,
               edges |-> <<>>, rejects |-> <<>>, n |-> 0]
    /\ NoMain

\* the host delivers {component: "input:c", delta: {state: true}}
Press(c) ==
    /\ \A d \in Channels : ~btn[d]
    /\ presses < MaxPresses
    /\ Len(requests) < MaxInFlight
    /\ LET m == handlePress([M EXCEPT !.requests = Stale(@),
                                      !.timers = Stale(@)], c)
       IN  /\ Commit(m)
           /\ log' = m.sent
           /\ last' = Step("press", NoReq, NoTimer, m)
    /\ btn' = [btn EXCEPT ![c] = TRUE]
    /\ presses' = presses + 1
    /\ pressTime' = now
    /\ pressCh' = c
    /\ rel' = <<>>
    /\ UNCHANGED <<now, brightness, timerHandle, nextHandle>>

\* the host delivers {component: "input:c", delta: {state: false}}
Release(c) ==
    /\ btn[c]
    /\ LET m == handleRelease(M)
       IN  /\ Commit(m)
           /\ log' = log \o m.sent
           /\ last' = Step("release", NoReq, NoTimer, m)
    /\ btn' = [btn EXCEPT ![c] = FALSE]
    /\ rel' = Append(rel, [pre |-> state, short |-> now - pressTime < LONG_PUSH_TIME])
    /\ UNCHANGED <<now, presses, pressTime, pressCh, brightness,
                   timerHandle, nextHandle>>

\* request i completes with a 2xx response: httpOk holds, the callback runs
Respond(i) ==
    /\ i \in 1..Len(requests)
    /\ \E b \in Bodies(requests[i]) :
        LET m == onResponse([M EXCEPT !.requests = RemoveAt(@, i)], requests[i], b)
        IN  /\ Commit(m)
            /\ log' = log \o Fetched(requests[i], b) \o m.sent
            /\ last' = Step("respond", requests[i], NoTimer, m)
    /\ UNCHANGED <<now, btn, presses, pressTime, pressCh, rel,
                   brightness, timerHandle, nextHandle>>

\* mutant: the wrapper does not look at the outcome and runs the callback
FailRunsCallback(i) ==
    /\ i \in 1..Len(requests)
    /\ LET m == onResponse([M EXCEPT !.requests = RemoveAt(@, i)], requests[i], "off")
       IN  /\ Commit(m)
           /\ log' = log \o m.sent
           /\ last' = Step("fail", requests[i], NoTimer, m)
    /\ UNCHANGED <<now, btn, presses, pressTime, pressCh, rel,
                   brightness, timerHandle, nextHandle>>

\* request i fails (transport error or non-2xx): httpOk is false, the wrapper
\* returns without running the callback
Fail(i) ==
    /\ i \in 1..Len(requests)
    /\ LET m == [M EXCEPT !.requests = RemoveAt(@, i)]
       IN  /\ Commit(m)
           /\ last' = Step("fail", requests[i], NoTimer, m)
    /\ UNCHANGED <<now, btn, presses, pressTime, pressCh, rel, log,
                   brightness, timerHandle, nextHandle>>

\* the one-shot timer armed by enterWaitingForLongPush fires
TimerFire(i) ==
    /\ i \in 1..Len(timers)
    /\ timers[i].due <= now
    /\ LET m == transitionTo([M EXCEPT !.timers = RemoveAt(@, i)],
                             "ENSURE_LIGHT_IS_ON")
       IN  /\ Commit(m)
           /\ log' = log \o m.sent
           /\ last' = Step("timer", NoReq, timers[i], m)
    /\ UNCHANGED <<now, btn, presses, pressTime, pressCh, rel,
                   brightness, timerHandle, nextHandle>>

\* time passes, up to the next grid point or the next timer, whichever is first;
\* a timer that is due fires before time passes further.  The program reads the
\* clock at a press and on entering WAITING_FOR_LONG_PUSH only, so time that
\* passes with no timer pending and the threshold already over is not modelled.
NextTime ==
    LET grid == now + TickMs - ((now - StartTime) % TickMs)
        dues == {timers[i].due : i \in 1..Len(timers)}
    IN  IF \E d \in dues : d < grid
        THEN CHOOSE d \in dues : \A e \in dues : d <= e
        ELSE grid

Tick ==
    /\ presses > 0
    /\ (timers # <<>> \/ now - pressTime < LONG_PUSH_TIME)
    /\ now < MaxTime
    /\ \A i \in 1..Len(timers) : timers[i].due > now
    /\ now' = NextTime
    /\ UNCHANGED <<last, state, inputTriggerTime, dimmerAction, lightStatus, requests,
                   timers, btn, presses, pressTime, pressCh, rel, log,
                   brightness, timerHandle, nextHandle>>
    /\ UNCHANGED mainVars

\* every device call succeeds
Next ==
    \/ \E c \in Channels : Press(c)
    \/ \E c \in Channels : Release(c)
    \/ \E i \in DOMAIN requests : Respond(i)
    \/ \E i \in DOMAIN timers : TimerFire(i)
    \/ Tick

Spec == Init /\ [][Next]_vars

\* device calls may fail
NextFail ==
    \/ Next
    \/ \E i \in DOMAIN requests : Fail(i)

SpecFail == Init /\ [][NextFail]_vars

(* ------------------------------------------------------------------------ *)
(* Properties of the DimmerController *)

Count(q, x) == Cardinality({i \in DOMAIN q : q[i] = x})

\* nothing is in flight and no timer is pending
Quiet == requests = <<>> /\ timers = <<>>

\* the most recent press was released, with no other edge in between
Released == Len(rel) = 1 /\ \A c \in Channels : ~btn[c]

\* the most recent press is still held
Held == presses > 0 /\ rel = <<>> /\ btn[pressCh]

Dir == inputMapping[pressCh]

\* C1: a press released less than LONG_PUSH_TIME later, all device calls
\* succeeding, sends exactly one turn=toggle and no dim command, and the machine
\* is IDLE once nothing is in flight or pending.
C1_ShortPress ==
    (Released /\ rel[1].short)
        => /\ Count(log, "toggle") = 1
           /\ Count(log, "up") + Count(log, "down") + Count(log, "stop") = 0
           /\ (Quiet => state = "IDLE")

\* C2: a press held for LONG_PUSH_TIME or longer, all device calls succeeding,
\* has, once nothing is in flight or pending, brought the machine to DIMMING
\* with one status fetch, then turn=on exactly when the fetched status was off,
\* then one dim in the mapped direction.
C2_LongPress ==
    (Held /\ now - pressTime >= LONG_PUSH_TIME /\ Quiet)
        => /\ state = "DIMMING"
           /\ log \in {<<"status", "is_on", Dir>>,
                       <<"status", "is_off", "on", Dir>>}

\* C3: a release received in DIMMING sends exactly one dim=stop, and the machine
\* is IDLE once nothing is in flight or pending, whether the stop succeeded or
\* failed.
C3_ReleaseInDimming ==
    (Released /\ rel[1].pre = "DIMMING")
        => /\ Count(log, "stop") = 1
           /\ (Quiet => state = "IDLE")

\* C7: the callback of a request sent before the most recent press never
\* changes the state.
C7_NoStaleCallback ==
    (last.act = "respond" /\ ~last.cur) => last.edges = <<>>

\* C8: a timer armed before the most recent press never makes a transition, and
\* ENSURE_LIGHT_IS_ON is entered no earlier than LONG_PUSH_TIME after the most
\* recent press.
C8_TimerCancelledOnIdle ==
    (last.act = "timer" /\ last.edges # <<>>)
        => (last.cur /\ now - pressTime >= LONG_PUSH_TIME)

\* C9 (as stated): at most one request to the device is in flight.
C9_OneInFlight == Len(requests) <= 1

\* C9 (amended): one run of a handler (button edge, timer, completion of a
\* request) sends at most one request; requests sent by different runs may be
\* in flight together.
C9_OnePerHandler == last.n <= 1

\* the release handler sent the toggle while the status fetch was in flight
C9_Witness ==
    /\ last.act = "release" /\ last.n = 1
    /\ Len(requests) = 2
    /\ requests[1].kind = "status" /\ requests[2].arg = "toggle"

\* C10: after a release received in WAITING_FOR_LONG_PUSH or GET_LIGHT_STATUS
\* the machine does not enter ENSURE_LIGHT_IS_ON or DIMMING, and it is IDLE once
\* nothing is in flight or pending, whether the toggle succeeded or failed.
C10_ToggleOutcome ==
    (Released /\ rel[1].pre \in {"WAITING_FOR_LONG_PUSH", "GET_LIGHT_STATUS"})
        => /\ state \notin {"ENSURE_LIGHT_IS_ON", "DIMMING"}
           /\ (Quiet => state = "IDLE")

\* what transitionTo may change
Core(m) ==
    [state |-> m.state, inputTriggerTime |-> m.inputTriggerTime,
     dimmerAction |-> m.dimmerAction, lightStatus |-> m.lightStatus,
     requests |-> m.requests, timers |-> m.timers, edges |-> m.edges,
     sent |-> m.sent]

\* C5 (as stated): every change of the state is an edge of the table.
C5_EveryChangeIsTableEdge ==
    \A i \in DOMAIN last.edges :
        /\ last.edges[i][1] \in STATES
        /\ last.edges[i][2] \in TRANSITIONS[last.edges[i][1]]

\* C5 (amended): once the state is initialised, a transitionTo(t) with t not
\* listed for the current state changes nothing (state, timestamp, direction,
\* status, requests, timers; no entry action runs), and every change of the
\* state is an edge of the table or the initial change from null to IDLE.
C5_TransitionGuard ==
    /\ \A t \in STATES :
        (state # "null" /\ t \notin TRANSITIONS[state])
            => Core(transitionTo(M, t)) = Core(M)
    /\ \A i \in DOMAIN last.edges :
        IF last.edges[i][1] = "null"
        THEN last.edges[i][2] = "IDLE"
        ELSE last.edges[i][2] \in TRANSITIONS[last.edges[i][1]]

\* a status fetch completed while the state was IDLE, and was ignored
C5_Witness ==
    /\ last.act = "respond" /\ last.cb = "toWaiting"
    /\ last.rejects = <<<<"IDLE", "WAITING_FOR_LONG_PUSH">>>>
    /\ state = "IDLE"

\* C6: when the press handler returns the state is GET_LIGHT_STATUS, reached
\* through IDLE when the machine was not there, the timestamp is the time of the
\* press, the direction is the one mapped to the channel, and the handler has
\* sent exactly one status fetch.
C6_PressHandling ==
    last.act = "press"
        => /\ state = "GET_LIGHT_STATUS"
           /\ inputTriggerTime = pressTime
           /\ dimmerAction = inputMapping[pressCh]
           /\ log = <<"status">>
           /\ Len(requests) > 0
           /\ requests[Len(requests)] =
                [kind |-> "status", arg |-> "", cb |-> "toWaiting", cur |-> TRUE]
           /\ \A i \in 1..(Len(requests) - 1) : ~requests[i].cur
           /\ \/ last.edges = <<<<"IDLE", "GET_LIGHT_STATUS">>>>
              \/ /\ Len(last.edges) = 2
                 /\ last.edges[1][1] # "IDLE"
                 /\ last.edges[1][2] = "IDLE"
                 /\ last.edges[2] = <<"IDLE", "GET_LIGHT_STATUS">>

\* a press was handled while the machine was DIMMING
C6_Witness ==
    /\ last.act = "press"
    /\ Len(last.edges) = 2
    /\ last.edges[1][1] = "DIMMING"

\* a step that enters WAITING_FOR_LONG_PUSH (the table has no edge from
\* WAITING_FOR_LONG_PUSH to itself)
EntersWaiting ==
    state # "WAITING_FOR_LONG_PUSH" /\ state' = "WAITING_FOR_LONG_PUSH"

C17_TimerArithmetic ==
    [][/\ EntersWaiting
            => /\ inputTriggerTime' = pressTime /\ inputTriggerTime' # 0
               /\ timers' = Append(timers,
                    [due |-> now + Max(1, LONG_PUSH_TIME - (now - inputTriggerTime')),
                     cur |-> TRUE])
       /\ Len(timers') > Len(timers) => EntersWaiting
       /\ (Len(timers') < Len(timers) /\ state = "WAITING_FOR_LONG_PUSH")
            => /\ last'.act = "timer"
               /\ last'.edges[1] = <<"WAITING_FOR_LONG_PUSH", "ENSURE_LIGHT_IS_ON">>
               /\ state' \in {"ENSURE_LIGHT_IS_ON", "DIMMING"}
       /\ Max(1, LONG_PUSH_TIME - 120) = 380
       /\ Max(1, LONG_PUSH_TIME - LONG_PUSH_TIME) = 1]_vars

\* the fetch took half of LONG_PUSH_TIME, the timer is armed for the other half
C17_Witness ==
    /\ last.act = "respond" /\ last.cb = "toWaiting"
    /\ state = "WAITING_FOR_LONG_PUSH"
    /\ now = pressTime + TickMs
    /\ timers # <<>>
    /\ timers[Len(timers)] = [due |-> now + (LONG_PUSH_TIME - TickMs), cur |-> TRUE]

C20_ReleaseElse ==
    /\ (last.act = "release" /\ rel[Len(rel)].pre \in {"IDLE", "ENSURE_LIGHT_IS_ON"})
        => /\ state = "IDLE" /\ last.n = 0
           /\ inputTriggerTime = 0 /\ dimmerAction = "stop"
    /\ (last.act = "respond" /\ last.cb = "toDimming" /\ state = "IDLE")
        => /\ last.rejects = <<<<"IDLE", "DIMMING">>>>
           /\ last.edges = <<>> /\ last.n = 0

\* released in ENSURE_LIGHT_IS_ON, then the turn=on completed
C20_Witness ==
    /\ Released /\ rel[1].pre = "ENSURE_LIGHT_IS_ON"
    /\ last.act = "respond" /\ last.cb = "toDimming"
    /\ state = "IDLE"


(* ------------------------------------------------------------------------ *)
(* The client-driven step loop (part_001).  The controller's fields are DATA; *)
(* lightStatus holds DATA.lightIsOn.  The wrappers of this script do not look *)
(* at the outcome of a request: the callback runs when the request completes. *)
(* The status fetch is modelled with a well-formed body.                      *)

minimumBrightness == 25
updateInterval == 250
dimmerStep == 2

\* the brightness values a status body may carry: one below the minimum and
\* one just inside each end of the range
Levels == {minimumBrightness - dimmerStep - 1, minimumBrightness + 1,
           100 - dimmerStep - 1}

LM ==
    [state |-> state, inputTriggerTime |-> inputTriggerTime,
     dimmerAction |-> dimmerAction, lightIsOn |-> lightStatus,
     brightness |-> brightness, timerHandle |-> timerHandle,
     requests |-> requests, timers |-> timers, nextHandle |-> nextHandle,
     edges |-> <<>>, rejects |-> <<>>, sent |-> <<>>]

\* Shelly.call("http.get", ...); val is the brightness a brightness request carries
sendRequestLoop(m, kind, arg, val, cb) ==
    [m EXCEPT !.requests = Append(@, [kind |-> kind, arg |-> arg, val |-> val,
                                      cb |-> cb, cur |-> TRUE]),
              !.sent = Append(@, [k |-> IF kind = "turn" THEN arg ELSE kind,
                                  v |-> val])]

\* Timer.set(delay, repeat, ...): returns a fresh handle
TimerSet(m, delay, repeat) ==
    [m EXCEPT !.timers = Append(@, [h |-> m.nextHandle, due |-> now + delay,
                                    rep |-> repeat, cur |-> TRUE]),
              !.nextHandle = @ + 1]

\* Timer.clear(h): the timer with this handle, if any, is removed
TimerClear(m, h) ==
    [m EXCEPT !.timers = SelectSeq(@, LAMBDA t : t.h # h)]

enterIdleLoop(m) ==
    [TimerClear(m, m.timerHandle) EXCEPT !.inputTriggerTime = 0,
                                         !.dimmerAction = "stop"]

enterGetLightStatusLoop(m) == sendRequestLoop(m, "status", "", 0, "toWaiting")

\* the handle Timer.set returns is dropped
enterWaitingForLongPushLoop(m) ==
    TimerSet(m, Max(1, LONG_PUSH_TIME - (now - m.inputTriggerTime)), FALSE)

enterDimmingLoop(m) ==
    LET m1 == TimerClear(m, m.timerHandle)
    IN  [TimerSet(m1, updateInterval, TRUE) EXCEPT !.timerHandle = m1.nextHandle]

RECURSIVE transitionToLoop(_, _)

enterEnsureLightIsOnLoop(m) ==
    IF ~m.lightIsOn
    THEN sendRequestLoop(m, "turn", "on", 0, "toDimming")
    ELSE transitionToLoop(m, "DIMMING")

transitionToLoop(m, s) ==
    IF s \notin TRANSITIONS[m.state]
    THEN [m EXCEPT !.rejects = Append(@, <<m.state, s>>)]
    ELSE LET m1 == [m EXCEPT !.state = s, !.edges = Append(@, <<m.state, s>>)]
         IN  CASE s = "GET_LIGHT_STATUS"      -> enterGetLightStatusLoop(m1)
               [] s = "WAITING_FOR_LONG_PUSH" -> enterWaitingForLongPushLoop(m1)
               [] s = "ENSURE_LIGHT_IS_ON"    -> enterEnsureLightIsOnLoop(m1)
               [] s = "DIMMING"               -> enterDimmingLoop(m1)
               [] s = "IDLE"                  -> enterIdleLoop(m1)
               [] OTHER                       -> m1

\* mutant: the directions are exchanged
dimmingLoopExchanged(m) ==
    IF m.dimmerAction \notin {"brighten", "darken"}
    THEN m
    ELSE LET previousBrightness == m.brightness
             stepped == IF m.dimmerAction = "darken"
                        THEN m.brightness + dimmerStep
                        ELSE m.brightness - dimmerStep
             clamped == Max(minimumBrightness, Min(100, stepped))
             m1 == [m EXCEPT !.brightness = clamped]
         IN  IF clamped # previousBrightness
             THEN sendRequestLoop(m1, "brightness", "", clamped, "setBrightness")
             ELSE transitionToLoop(m1, "IDLE")

\* mutant: at a clamp boundary the loop goes on
dimmingLoopNoStop(m) ==
    IF m.dimmerAction \notin {"brighten", "darken"}
    THEN m
    ELSE LET previousBrightness == m.brightness
             stepped == IF m.dimmerAction = "brighten"
                        THEN m.brightness + dimmerStep
                        ELSE m.brightness - dimmerStep
             clamped == Max(minimumBrightness, Min(100, stepped))
             m1 == [m EXCEPT !.brightness = clamped]
         IN  IF clamped # previousBrightness
             THEN sendRequestLoop(m1, "brightness", "", clamped, "setBrightness")
             ELSE m1

\* mutant: the stepped value is not clamped from below
dimmingLoopNoFloor(m) ==
    IF m.dimmerAction \notin {"brighten", "darken"}
    THEN m
    ELSE LET previousBrightness == m.brightness
             stepped == IF m.dimmerAction = "brighten"
                        THEN m.brightness + dimmerStep
                        ELSE m.brightness - dimmerStep
             clamped == Min(100, stepped)
             m1 == [m EXCEPT !.brightness = clamped]
         IN  IF clamped # previousBrightness
             THEN sendRequestLoop(m1, "brightness", "", clamped, "setBrightness")
             ELSE transitionToLoop(m1, "IDLE")

dimmingLoop(m) ==
    IF m.dimmerAction \notin {"brighten", "darken"}
    THEN m
    ELSE LET previousBrightness == m.brightness
             stepped == IF m.dimmerAction = "brighten"
                        THEN m.brightness + dimmerStep
                        ELSE m.brightness - dimmerStep
             clamped == Max(minimumBrightness, Min(100, stepped))
             m1 == [m EXCEPT !.brightness = clamped]
         IN  IF clamped # previousBrightness
             THEN sendRequestLoop(m1, "brightness", "", clamped, "setBrightness")
             ELSE transitionToLoop(m1, "IDLE")

\* the status handler, e.delta.state === true on input:0 or input:1
handlePressLoop(m, c) ==
    LET m1 == IF m.state # "IDLE" THEN transitionToLoop(m, "IDLE") ELSE m
        m2 == [m1 EXCEPT !.inputTriggerTime = now,
                         !.dimmerAction = IF c = "1" THEN "brighten" ELSE "darken"]
    IN  transitionToLoop(m2, "GET_LIGHT_STATUS")

\* the status handler, e.delta.state === false on input:0 or input:1
handleReleaseLoop(m) ==
    IF m.state = "WAITING_FOR_LONG_PUSH"
    THEN sendRequestLoop(transitionToLoop(m, "IDLE"), "turn", "toggle", 0, "none")
    ELSE m

\* the wrapper's callback for request r; body is what a status fetch returns
onCompleteLoop(m, r, body) ==
    CASE r.kind = "status" ->
            transitionToLoop([m EXCEPT !.lightIsOn = body.ison,
                                       !.brightness = body.brightness],
                             "WAITING_FOR_LONG_PUSH")
      [] r.kind = "turn" ->
            LET m1 == [m EXCEPT !.lightIsOn =
                          IF r.arg = "on" THEN TRUE
                          ELSE IF r.arg = "toggle" THEN ~m.lightIsOn ELSE FALSE]
            IN  IF r.cb = "toDimming" THEN transitionToLoop(m1, "DIMMING") ELSE m1
      [] r.kind = "brightness" -> [m EXCEPT !.brightness = r.val]
      [] OTHER -> m

BodiesLoop(r) ==
    IF r.kind = "status"
    THEN [ison : BOOLEAN, brightness : Levels]
    ELSE {[ison |-> FALSE, brightness |-> 0]}

(* Steps of the step-loop model *)

NoReqLoop == [kind |-> "", arg |-> "", val |-> 0, cb |-> "", cur |-> TRUE]
NoTimerLoop == [h |-> 0, due |-> 0, rep |-> FALSE, cur |-> TRUE]

CommitLoop(m) ==
    /\ state' = m.state
    /\ inputTriggerTime' = m.inputTriggerTime
    /\ dimmerAction' = m.dimmerAction
    /\ lightStatus' = m.lightIsOn
    /\ brightness' = m.brightness
    /\ timerHandle' = m.timerHandle
    /\ requests' = m.requests
    /\ timers' = m.timers
    /\ nextHandle' = m.nextHandle
    /\ UNCHANGED mainVars

InitLoop ==
    /\ state = "IDLE"
    /\ inputTriggerTime = 0
    /\ dimmerAction = "stop"
    /\ lightStatus = FALSE
    /\ brightness = minimumBrightness
    /\ timerHandle = 0
    /\ nextHandle = 1
    /\ requests = <<>>
    /\ timers = <<>>
    /\ now = StartTime
    /\ btn = [c \in Channels |-> FALSE]
    /\ presses = 0
    /\ pressTime = 0
    /\ pressCh = ""
    /\ rel = <<>>
    /\ log = <<>>
    /\ last = [act |-> "init", cb |-> "", cur |-> TRUE,
               edges |-> <<>>, rejects |-> <<>>, n |-> 0]
    /\ NoMain

PressLoop(c) ==
    /\ \A d \in Channels : ~btn[d]
    /\ presses < MaxPresses
    /\ Len(requests) < MaxInFlight
    /\ LET m == handlePressLoop([LM EXCEPT !.requests = Stale(@),
                                          !.timers = Stale(@)], c)
       IN  /\ CommitLoop(m)
           /\ log' = m.sent
           /\ last' = Step("press", NoReqLoop, NoTimerLoop, m)
    /\ btn' = [btn EXCEPT ![c] = TRUE]
    /\ presses' = presses + 1
    /\ pressTime' = now
    /\ pressCh' = c
    /\ rel' = <<>>
    /\ UNCHANGED now

ReleaseLoop(c) ==
    /\ btn[c]
    /\ LET m == handleReleaseLoop(LM)
       IN  /\ CommitLoop(m)
           /\ log' = log \o m.sent
           /\ last' = Step("release", NoReqLoop, NoTimerLoop, m)
    /\ btn' = [btn EXCEPT ![c] = FALSE]
    /\ rel' = Append(rel, [pre |-> state, short |-> now - pressTime < LONG_PUSH_TIME])
    /\ UNCHANGED <<now, presses, pressTime, pressCh>>

\* request i completes and its callback runs
CompleteLoop(i) ==
    /\ i \in 1..Len(requests)
    /\ \E body \in BodiesLoop(requests[i]) :
        LET m == onCompleteLoop([LM EXCEPT !.requests = RemoveAt(@, i)],
                                requests[i], body)
        IN  /\ CommitLoop(m)
            /\ log' = log \o m.sent
            /\ last' = Step("respond", requests[i], NoTimerLoop, m)
    /\ UNCHANGED <<now, btn, presses, pressTime, pressCh, rel>>

\* timer i fires: a one-shot timer is the long-press timer, the repeating timer
\* runs dimmingLoop and stays armed unless the callback clears it
TimerFireLoop(i) ==
    /\ i \in 1..Len(timers)
    /\ timers[i].due <= now
    /\ LET t == timers[i]
           m == IF t.rep
                THEN dimmingLoop([LM EXCEPT !.timers[i].due = t.due + updateInterval])
                ELSE transitionToLoop([LM EXCEPT !.timers = RemoveAt(@, i)],
                                      "ENSURE_LIGHT_IS_ON")
       IN  /\ CommitLoop(m)
           /\ log' = log \o m.sent
           /\ last' = Step(IF t.rep THEN "loop" ELSE "timer", NoReqLoop, t, m)
    /\ UNCHANGED <<now, btn, presses, pressTime, pressCh, rel>>

TickLoop ==
    /\ presses > 0
    /\ (timers # <<>> \/ now - pressTime < LONG_PUSH_TIME)
    /\ now < MaxTimeLoop
    /\ \A i \in 1..Len(timers) : timers[i].due > now
    /\ now' = NextTime
    /\ UNCHANGED <<last, state, inputTriggerTime, dimmerAction, lightStatus, requests,
                   timers, btn, presses, pressTime, pressCh, rel, log,
                   brightness, timerHandle, nextHandle>>
    /\ UNCHANGED mainVars

NextLoop ==
    \/ \E c \in Channels : PressLoop(c)
    \/ \E c \in Channels : ReleaseLoop(c)
    \/ \E i \in DOMAIN requests : CompleteLoop(i)
    \/ \E i \in DOMAIN timers : TimerFireLoop(i)
    \/ TickLoop

SpecLoop == InitLoop /\ [][NextLoop]_vars

\* C4: after a release received in DIMMING the repeating timer is cancelled and
\* the machine is IDLE: no dimmingLoop tick runs and no brightness request is
\* sent after the release.
C4_ReleaseStopsLoop ==
    (Released /\ rel[1].pre = "DIMMING")
        => /\ state = "IDLE"
           /\ \A i \in DOMAIN timers : ~timers[i].rep
           /\ last.act # "loop"

(* ------------------------------------------------------------------------ *)
(* The IDLE entry action, in both scripts *)

\* the pending timers as the host of part_001 holds them, with handles 1, 2, ...
Handled(q) ==
    [i \in DOMAIN q |-> [h |-> i, due |-> q[i].due, rep |-> FALSE, cur |-> q[i].cur]]

\* the fields of the controller
Fields(m) ==
    [state |-> m.state, inputTriggerTime |-> m.inputTriggerTime,
     dimmerAction |-> m.dimmerAction, lightStatus |-> m.lightStatus,
     requests |-> m.requests, timers |-> m.timers]

INPUT_COMPONENT_PREFIX == <<"i", "n", "p", "u", "t", ":">>

Null == [t |-> "null"]
Str(q) == [t |-> "string", s |-> q]
Obj(id, pw) == [t |-> "object", id |-> id, pw |-> pw]

\* a value used as a condition
Truthy(v) == v.t = "object" \/ (v.t = "string" /\ v.s # <<>>)

RECURSIVE Join(_)
\* the string of a sequence of characters
Join(q) == IF q = <<>> THEN "" ELSE Head(q) \o Join(Tail(q))

\* str.substring(from)
substring(str, from) == SubSeq(str, from + 1, Len(str))

\* str.substring(0, prefix.length) === prefix
startsWith(str, prefix) == SubSeq(str, 1, Min(Len(prefix), Len(str))) = prefix

\* the two bindings of the example configuration; binding i has the channels
\* 2i-2 (down) and 2i-1 (up)
Ids == <<"front", "back">>
Keys == <<"0", "1", "2", "3">>
AllChannels == {Keys[i] : i \in DOMAIN Keys}
Btn(i) ==
    [c \in {Keys[2 * i - 1], Keys[2 * i]} |-> IF c = Keys[2 * i - 1] THEN "down" ELSE "up"]
Binding(i, auth) ==
    [id |-> Ids[i], btn |-> Btn(i),
     dev |-> [addr |-> "addr-" \o Ids[i], auth |-> auth]]

\* the credentials stored under key
Stored(key) == Obj("id-" \o Join(key), "pw-" \o Join(key))

\* the URL sendRequest builds for the request r of a controller, in its parts:
\* "http://" + userinfo + host + "/" + path
Url(deviceConfig, r) ==
    [userinfo |->
        IF Truthy(deviceConfig.auth)
        THEN IF deviceConfig.auth.t = "object"
             THEN deviceConfig.auth.id \o ":" \o deviceConfig.auth.pw \o "@"
             ELSE "undefined:undefined@"
        ELSE "",
     host |-> deviceConfig.addr,
     path |->
        CASE r.kind = "status" -> "light/0"
          [] r.kind = "turn"   -> "light/0?turn=" \o r.arg
          [] OTHER             -> "light/0?dim=" \o r.arg
                                  \o (IF r.arg # "stop" THEN "&step=100" ELSE "")]

\* new DimmerController(id, inputMapping, deviceConfig)
DimmerController(id, mapping, deviceConfig) ==
    [id |-> id, inputMapping |-> mapping, deviceConfig |-> deviceConfig,
     state |-> "null", inputTriggerTime |-> 0, dimmerAction |-> "stop",
     lightStatus |-> "null"]

\* the fields of controller k, for a handler of k to run on
Of(k) ==
    [state |-> k.state, inputTriggerTime |-> k.inputTriggerTime,
     dimmerAction |-> k.dimmerAction, lightStatus |-> k.lightStatus,
     inputMapping |-> k.inputMapping,
     requests |-> <<>>, timers |-> <<>>,
     edges |-> <<>>, rejects |-> <<>>, sent |-> <<>>]

\* mutant: a release is handled whatever the index of the channel
handleInputEventAnyRelease(m, e) ==
    IF ~startsWith(e.component, INPUT_COMPONENT_PREFIX)
    THEN m
    ELSE LET inputIndex ==
                Join(substring(e.component, Len(INPUT_COMPONENT_PREFIX)))
         IN  IF e.state /\ inputIndex \in DOMAIN m.inputMapping
             THEN handlePress(m, inputIndex)
             ELSE IF ~e.state THEN handleRelease(m) ELSE m

\* handleInputEvent(e), e = {component, delta: {state}}
handleInputEvent(m, e) ==
    IF ~startsWith(e.component, INPUT_COMPONENT_PREFIX)
    THEN m
    ELSE LET inputIndex ==
                Join(substring(e.component, Len(INPUT_COMPONENT_PREFIX)))
         IN  IF inputIndex \in DOMAIN m.inputMapping
             THEN IF e.state THEN handlePress(m, inputIndex) ELSE handleRelease(m)
             ELSE m

\* the system after a handler of controller b ran and left m
After(S, b, m) ==
    [controllers |->
        [S.controllers EXCEPT ![b] =
            [@ EXCEPT !.state = m.state,
                      !.inputTriggerTime = m.inputTriggerTime,
                      !.dimmerAction = m.dimmerAction,
                      !.lightStatus = m.lightStatus]],
     requests |-> S.requests \o
        [i \in DOMAIN m.requests |->
            [b |-> b, url |-> Url(S.controllers[b].deviceConfig, m.requests[i]),
             kind |-> m.requests[i].kind, arg |-> m.requests[i].arg,
             cb |-> m.requests[i].cb, cur |-> TRUE]],
     timers |-> S.timers \o
        [i \in DOMAIN m.timers |->
            [b |-> b, due |-> m.timers[i].due, cur |-> TRUE]]]

Sys == [controllers |-> controllers, requests |-> requests, timers |-> timers]

RECURSIVE Deliver(_, _, _)
\* the host calls the registered status handlers, from the i-th on, with e
Deliver(S, i, e) ==
    IF i > Len(handlers)
    THEN S
    ELSE LET b == handlers[i]
         IN  Deliver(After(S, b, handleInputEvent(Of(S.controllers[b]), e)), i + 1, e)

CommitSys(S) ==
    /\ controllers' = S.controllers
    /\ requests' = S.requests
    /\ timers' = S.timers

\* the variables of the single-controller models
oneVars == <<state, inputTriggerTime, dimmerAction, lightStatus, brightness,
             timerHandle, nextHandle, rel>>

\* the components of events that no binding maps
ForeignComponents ==
    {<<"s", "w", "i", "t", "c", "h", ":", "0">>,
     INPUT_COMPONENT_PREFIX \o <<"9">>}

\* the host reports that input c changed to st
InputEvent(c, st) ==
    /\ handlers # <<>>
    /\ IF st
       THEN /\ \A d \in AllChannels : ~btn[d]
            /\ presses < MaxPresses
            /\ Len(requests) < MaxInFlight
       ELSE btn[c]
    /\ LET e == [component |-> INPUT_COMPONENT_PREFIX \o <<c>>, state |-> st]
       IN  /\ CommitSys(Deliver(Sys, 1, e))
           /\ last' = [act |-> "event", comp |-> e.component, b |-> 0]
    /\ btn' = [btn EXCEPT ![c] = st]
    /\ presses' = IF st THEN presses + 1 ELSE presses
    /\ pressTime' = IF st THEN now ELSE pressTime
    /\ pressCh' = IF st THEN c ELSE pressCh
    /\ UNCHANGED <<now, log, configurations, toProcess, lookups, ready, handlers>>
    /\ UNCHANGED oneVars

\* the host reports a status change of another component
ForeignEvent(comp, st) ==
    /\ handlers # <<>>
    /\ CommitSys(Deliver(Sys, 1, [component |-> comp, state |-> st]))
    /\ UNCHANGED <<now, btn, presses, pressTime, pressCh, log, last,
                   configurations, toProcess, lookups, ready, handlers>>
    /\ UNCHANGED oneVars

\* request i completes with a 2xx response: the callback runs on its controller
RespondTwo(i) ==
    /\ i \in 1..Len(requests)
    /\ \E body \in Bodies(requests[i]) :
        LET b == requests[i].b
            m == onResponse(Of(controllers[b]), requests[i], body)
        IN  /\ CommitSys(After([Sys EXCEPT !.requests = RemoveAt(@, i)], b, m))
            /\ last' = [act |-> "respond", comp |-> <<>>, b |-> b]
    /\ UNCHANGED <<now, btn, presses, pressTime, pressCh, log,
                   configurations, toProcess, lookups, ready, handlers>>
    /\ UNCHANGED oneVars

\* request i fails: the wrapper returns without running the callback
FailTwo(i) ==
    /\ i \in 1..Len(requests)
    /\ requests' = RemoveAt(requests, i)
    /\ last' = [act |-> "fail", comp |-> <<>>, b |-> requests[i].b]
    /\ UNCHANGED <<now, btn, presses, pressTime, pressCh, log, timers, controllers,
                   configurations, toProcess, lookups, ready, handlers>>
    /\ UNCHANGED oneVars

\* the long-press timer i fires: the callback runs on its controller
TimerFireTwo(i) ==
    /\ i \in 1..Len(timers)
    /\ timers[i].due <= now
    /\ LET b == timers[i].b
           m == transitionTo(Of(controllers[b]), "ENSURE_LIGHT_IS_ON")
       IN  /\ CommitSys(After([Sys EXCEPT !.timers = RemoveAt(@, i)], b, m))
           /\ last' = [act |-> "timer", comp |-> <<>>, b |-> b]
    /\ UNCHANGED <<now, btn, presses, pressTime, pressCh, log,
                   configurations, toProcess, lookups, ready, handlers>>
    /\ UNCHANGED oneVars

\* time passes, within LONG_PUSH_TIME of the start
TickTwo ==
    /\ now < StartTime + LONG_PUSH_TIME
    /\ Tick

\* every device call succeeds
NextTwo ==
    \/ \E c \in AllChannels, st \in BOOLEAN : InputEvent(c, st)
    \/ \E comp \in ForeignComponents, st \in BOOLEAN : ForeignEvent(comp, st)
    \/ \E i \in DOMAIN requests : RespondTwo(i)
    \/ \E i \in DOMAIN timers : TimerFireTwo(i)
    \/ TickTwo

\* what main's callback does with the resolved list config
Constructed(config) ==
    [i \in DOMAIN config |->
        DimmerController(IF config[i].id # "" THEN config[i].id
                         ELSE "dimmer-" \o ToString(i - 1),
                         config[i].btn, config[i].dev)]

\* the example configuration, loaded; the first binding has credentials
Example == <<Binding(1, Stored(<<"k", "1">>)), Binding(2, Null)>>

InitTwo ==
    /\ configurations = Example
    /\ toProcess = -1
    /\ lookups = <<>>
    /\ ready = 1
    /\ controllers = Constructed(Example)
    /\ handlers = <<1, 2>>
    /\ state = "null"
    /\ inputTriggerTime = 0
    /\ dimmerAction = "stop"
    /\ lightStatus = "null"
    /\ brightness = 0
    /\ timerHandle = 0
    /\ nextHandle = 1
    /\ requests = <<>>
    /\ timers = <<>>
    /\ now = StartTime
    /\ btn = [c \in AllChannels |-> FALSE]
    /\ presses = 0
    /\ pressTime = 0
    /\ pressCh = ""
    /\ rel = <<>>
    /\ log = <<>>
    /\ last = [act |-> "init", comp |-> <<>>, b |-> 0]

SpecTwo == InitTwo /\ [][NextTwo]_vars

\* the components of the events of binding b's channels
Mapped(b) ==
    {INPUT_COMPONENT_PREFIX \o <<c>> : c \in DOMAIN controllers[b].inputMapping}

\* what belongs to binding b: its controller, its requests, its timers
Own(b, S) ==
    [controller |-> S.controllers[b],
     requests |-> SelectSeq(S.requests, LAMBDA r : r.b = b),
     timers |-> SelectSeq(S.timers, LAMBDA t : t.b = b)]

\* C11: an event on a channel that binding b does not map, and a callback or a
\* timer of another binding, leave b's controller, b's requests and b's timers as
\* they are; b's handler, given any event whose component does not start with
\* "input:" or whose index is not a key of b's map, changes nothing.
C11_BindingIsolation ==
    /\ [][\A b \in DOMAIN controllers :
            (\/ last'.act = "event" /\ last'.comp \notin Mapped(b)
             \/ last'.act \in {"respond", "timer"} /\ last'.b # b)
                => Own(b, Sys)' = Own(b, Sys)]_vars
    /\ [](\A b \in DOMAIN controllers :
            \A comp \in ForeignComponents
                        \cup {INPUT_COMPONENT_PREFIX \o <<c>> : c \in AllChannels},
               st \in BOOLEAN :
                comp \notin Mapped(b)
                    => handleInputEvent(Of(controllers[b]), [component |-> comp, state |-> st])
                        = Of(controllers[b]))

\* a channel of the second binding is pressed while the first binding is
\* dimming; the first controller is still dimming
C11_Witness ==
    /\ last.act = "event" /\ last.comp = INPUT_COMPONENT_PREFIX \o <<"2">>
    /\ controllers[1].state = "DIMMING"
    /\ controllers[2].state = "GET_LIGHT_STATUS"
    /\ \E i \in DOMAIN requests : requests[i].b = 2 /\ requests[i].url.host = "addr-back"

(* ------------------------------------------------------------------------ *)
(* getConfiguration and main (part_000).  The handlers of the KVS calls are   *)
(* functions on the record L of what they may change.  In SpecLoad log is the *)
(* history of the KVS calls that completed.                                   *)

REMOTE_DIMMER_CONFIG_KEY == <<"remote-dimmer-config">>

\* error_code of a call that succeeded, and of one that failed
ErrorCodes == {0, -1}

\* mutant: every call counts as succeeded
callOkAlways(error_code) == TRUE

callOk(error_code) == error_code = 0

\* what dev.auth of binding i may be in the stored list: null, a reference to
\* the key "k<i>", or the credentials themselves
Auths(i) == {Null, Str(<<"@", "k", ToString(i)>>), Obj("id-inline", "pw-inline")}

\* the binding lists the store may hold: up to the two bindings of the example
ConfigLists ==
    {<<>>}
    \cup {<<Binding(1, a)>> : a \in Auths(1)}
    \cup {<<Binding(1, a), Binding(2, b)>> : a \in Auths(1), b \in Auths(2)}

Load ==
    [configurations |-> configurations, toProcess |-> toProcess,
     lookups |-> lookups, ready |-> ready, controllers |-> controllers,
     handlers |-> handlers, thrown |-> <<>>]

\* getKVS(key, callback): callback is bound to configurations[i] (i = 0: the
\* callback of getConfiguration)
getKVS(L, key, i) == [L EXCEPT !.lookups = Append(@, [key |-> key, i |-> i])]

\* the callback main passes to getConfiguration
mainCallback(L) ==
    [L EXCEPT !.ready = @ + 1,
              !.controllers = @ \o Constructed(L.configurations),
              !.handlers = @ \o [i \in DOMAIN L.configurations |-> Len(L.controllers) + i]]

proceedIfAllProcessed(L) ==
    IF L.toProcess = 0
    THEN mainCallback([L EXCEPT !.toProcess = -1])
    ELSE L

RECURSIVE processFrom(_, _)
\* the loop over configurations, from index i on, and what follows it;
\* startsWith of a value that is not a string throws and ends the handler
processFrom(L, i) ==
    IF i > Len(L.configurations)
    THEN proceedIfAllProcessed(L)
    ELSE LET auth == L.configurations[i].dev.auth
         IN  IF ~Truthy(auth)
             THEN processFrom([L EXCEPT !.toProcess = @ - 1], i + 1)
             ELSE IF auth.t # "string"
                  THEN [L EXCEPT !.thrown = Append(@, i)]
                  ELSE IF startsWith(auth.s, <<"@">>)
                       THEN processFrom(getKVS(L, substring(auth.s, 1), i), i + 1)
                       ELSE processFrom([L EXCEPT !.toProcess = @ - 1], i + 1)

\* the callback of getKVS(REMOTE_DIMMER_CONFIG_KEY, ...); value is the parsed list
onConfiguration(L, error_code, value) ==
    IF ~callOk(error_code)
    THEN L
    ELSE processFrom([L EXCEPT !.configurations = value,
                               !.toProcess = Len(value)], 1)

\* mutant: a failed lookup leaves the reference in place
onCredentialsKeepReference(L, i, key, error_code) ==
    proceedIfAllProcessed(
        [L EXCEPT !.configurations[i].dev.auth =
                      IF callOk(error_code) THEN Stored(key) ELSE @,
                  !.toProcess = @ - 1])

\* the callback of getKVS(authKey, ...), bound to configurations[i]
onCredentials(L, i, key, error_code) ==
    proceedIfAllProcessed(
        [L EXCEPT !.configurations[i].dev.auth =
                      IF callOk(error_code) THEN Stored(key) ELSE Null,
                  !.toProcess = @ - 1])

CommitLoad(L) ==
    /\ configurations' = L.configurations
    /\ toProcess' = L.toProcess
    /\ lookups' = L.lookups
    /\ ready' = L.ready
    /\ controllers' = L.controllers
    /\ handlers' = L.handlers
    /\ UNCHANGED <<requests, timers, now, btn, presses, pressTime, pressCh>>
    /\ UNCHANGED oneVars

\* what the history records of a KVS call that completed, and of a throw
Done(ev, i, code, value, L) ==
    <<[ev |-> ev, i |-> i, code |-> code, value |-> value]>>
    \o [k \in DOMAIN L.thrown |->
            [ev |-> "TypeError", i |-> L.thrown[k], code |-> 0, value |-> <<>>]]

\* the lookup of the binding list completes
ConfigurationLoaded(j) ==
    /\ j \in DOMAIN lookups
    /\ lookups[j].i = 0
    /\ \E error_code \in ErrorCodes :
        \E value \in IF callOk(error_code) THEN ConfigLists ELSE {<<>>} :
            LET L == onConfiguration([Load EXCEPT !.lookups = RemoveAt(@, j)],
                                     error_code, value)
            IN  /\ CommitLoad(L)
                /\ log' = log \o Done("config", 0, error_code, value, L)
    /\ last' = [act |-> "config", comp |-> lookups[j].key, b |-> 0]

\* the lookup of the credentials of a binding completes
CredentialsLoaded(j) ==
    /\ j \in DOMAIN lookups
    /\ lookups[j].i > 0
    /\ \E error_code \in ErrorCodes :
        LET L == onCredentials([Load EXCEPT !.lookups = RemoveAt(@, j)],
                               lookups[j].i, lookups[j].key, error_code)
        IN  /\ CommitLoad(L)
            /\ log' = log \o Done("credentials", lookups[j].i, error_code, <<>>, L)
    /\ last' = [act |-> "credentials", comp |-> lookups[j].key, b |-> lookups[j].i]

\* main(): getConfiguration has issued the lookup of the binding list
InitLoad ==
    /\ configurations = <<>>
    /\ toProcess = 0
    /\ lookups = <<[key |-> REMOTE_DIMMER_CONFIG_KEY, i |-> 0]>>
    /\ ready = 0
    /\ controllers = <<>>
    /\ handlers = <<>>
    /\ state = "null"
    /\ inputTriggerTime = 0
    /\ dimmerAction = "stop"
    /\ lightStatus = "null"
    /\ brightness = 0
    /\ timerHandle = 0
    /\ nextHandle = 1
    /\ requests = <<>>
    /\ timers = <<>>
    /\ now = StartTime
    /\ btn = [c \in AllChannels |-> FALSE]
    /\ presses = 0
    /\ pressTime = 0
    /\ pressCh = ""
    /\ rel = <<>>
    /\ log = <<>>
    /\ last = [act |-> "init", comp |-> <<>>, b |-> 0]

\* loading, and then button events and completing requests before any timer
\* expires
NextLoad ==
    \/ \E j \in DOMAIN lookups : ConfigurationLoaded(j)
    \/ \E j \in DOMAIN lookups : CredentialsLoaded(j)
    \/ \E c \in AllChannels, st \in BOOLEAN : InputEvent(c, st)
    \/ \E i \in DOMAIN requests : RespondTwo(i)
    \/ \E i \in DOMAIN requests : FailTwo(i)

SpecLoad == InitLoad /\ [][NextLoad]_vars

\* the lookup of the binding list completed successfully
Loaded == \E k \in DOMAIN log : log[k].ev = "config" /\ callOk(log[k].code)

\* C12: the ready callback is invoked at most once, never while a lookup of
\* credentials is outstanding, and it has been invoked once the binding list
\* is loaded and no lookup is outstanding (for every list, every order of
\* completion and every outcome of the lookups).
C12_LoaderBarrier ==
    /\ ready <= 1
    /\ ready = 1 => lookups = <<>>
    /\ (Loaded /\ lookups = <<>>) => ready = 1

\* the lookup of the credentials of binding i failed
LookupFailed(i) ==
    \E k \in DOMAIN log :
        log[k].ev = "credentials" /\ log[k].i = i /\ ~callOk(log[k].code)

\* the lookup of the credentials of binding i succeeded
LookupSucceeded(i) ==
    \E k \in DOMAIN log :
        log[k].ev = "credentials" /\ log[k].i = i /\ callOk(log[k].code)

\* no handler has thrown
NoThrow == \A k \in DOMAIN log : log[k].ev # "TypeError"

\* dev.auth of binding j as the lookups completed so far leave it, from the
\* list as it was loaded (the value of the first entry of the history)
Resolved(j) ==
    LET auth == log[1].value[j].dev.auth
    IN  IF LookupFailed(j) THEN Null
        ELSE IF LookupSucceeded(j) THEN Stored(substring(auth.s, 1))
        ELSE auth

ConfigurationUnavailable ==
    \E k \in DOMAIN log : log[k].ev = "config" /\ log[k].code # 0

\* C14: when the lookup of the binding list has failed, the ready callback has
\* not run, no lookup is outstanding or has completed since (no lookup of
\* credentials, no second lookup of the list), there is no controller and no
\* status handler, and no request has been sent.
C14_ConfigurationUnavailable ==
    ConfigurationUnavailable =>
        /\ ready = 0
        /\ lookups = <<>>
        /\ Len(log) = 1
        /\ configurations = <<>>
        /\ controllers = <<>>
        /\ handlers = <<>>
        /\ requests = <<>>

\* the lookup of the binding list has just failed
C14_Witness ==
    /\ ConfigurationUnavailable
    /\ last.act = "config"
    /\ lookups = <<>>

(* ------------------------------------------------------------------------ *)
(* The ramp of the step loop (part_001) *)

\* a step in which the repeating timer has run dimmingLoop
LoopStep == last'.act = "loop" /\ now' = now

\* clamp(previous +/- dimmerStep, minimumBrightness, 100)
Clamped(previous, action) ==
    Max(minimumBrightness,
        Min(100, IF action = "brighten" THEN previous + dimmerStep
                                        ELSE previous - dimmerStep))

\* C21: a tick of dimmingLoop with direction brighten/darken sets brightness to
\* the clamped stepped value; if that differs from the previous value exactly
\* one brightness request with this value is sent and the state stays DIMMING,
\* otherwise nothing is sent, the state becomes IDLE and the repeating timer
\* is gone.  The repeating timer exists only in DIMMING, and every brightness
\* request carries a value in minimumBrightness..100.
C21_RampTick ==
    /\ [][(LoopStep /\ dimmerAction \in {"brighten", "darken"}) =>
            LET c == Clamped(brightness, dimmerAction)
            IN  /\ brightness' = c
                /\ c # brightness =>
                        /\ requests' = Append(requests,
                                [kind |-> "brightness", arg |-> "", val |-> c,
                                 cb |-> "setBrightness", cur |-> TRUE])
                        /\ log' = Append(log, [k |-> "brightness", v |-> c])
                        /\ state = "DIMMING" /\ state' = "DIMMING"
                        /\ \E i \in DOMAIN timers' : timers'[i].rep
                /\ c = brightness =>
                        /\ requests' = requests
                        /\ log' = log
                        /\ state' = "IDLE"
                        /\ \A i \in DOMAIN timers' : ~timers'[i].rep]_vars
    /\ []((\E i \in DOMAIN timers : timers[i].rep) => state = "DIMMING")
    /\ [](\A i \in DOMAIN requests :
            requests[i].kind = "brightness"
                => requests[i].val \in minimumBrightness..100)

\* the ramp has sent 100 and the next tick has ended it
C21_Witness ==
    /\ last.act = "loop"
    /\ state = "IDLE"
    /\ brightness = 100
    /\ timers = <<>>
    /\ \E k \in DOMAIN log : log[k] = [k |-> "brightness", v |-> 100]

\* the brightness a ramp starts from: a few steps from the boundary it runs to
RampLevels(action) ==
    IF action = "brighten"
    THEN {100 - 3 * dimmerStep, 100 - dimmerStep - 1}
    ELSE {minimumBrightness + 1, minimumBrightness + dimmerStep + 1}

MaxTimeRamp == StartTime + LONG_PUSH_TIME + MaxTicksRamp * updateInterval

\* DIMMING has just been entered for a press at StartTime that is still held:
\* the status fetch has reported a light that is on, the long-press timer
\* (handle 1) has expired, and enterDimming has armed the repeating timer
InitRamp ==
    /\ now = StartTime + LONG_PUSH_TIME
    /\ \E c \in Channels :
        \E level \in RampLevels(IF c = "1" THEN "brighten" ELSE "darken") :
            LET m == enterDimmingLoop(
                        [state |-> "DIMMING", inputTriggerTime |-> StartTime,
                         dimmerAction |-> IF c = "1" THEN "brighten" ELSE "darken",
                         lightIsOn |-> TRUE, brightness |-> level,
                         timerHandle |-> 0, requests |-> <<>>, timers |-> <<>>,
                         nextHandle |-> 2,
                         edges |-> <<>>, rejects |-> <<>>, sent |-> <<>>])
            IN  /\ state = m.state
                /\ inputTriggerTime = m.inputTriggerTime
                /\ dimmerAction = m.dimmerAction
                /\ lightStatus = m.lightIsOn
                /\ brightness = m.brightness
                /\ timerHandle = m.timerHandle
                /\ nextHandle = m.nextHandle
                /\ requests = m.requests
                /\ timers = m.timers
                /\ btn = [d \in Channels |-> d = c]
                /\ pressCh = c
    /\ presses = 1
    /\ pressTime = StartTime
    /\ rel = <<>>
    /\ log = <<[k |-> "status", v |-> 0]>>
    /\ last = [act |-> "timer", cb |-> "", cur |-> TRUE,
               edges |-> <<<<"WAITING_FOR_LONG_PUSH", "ENSURE_LIGHT_IS_ON">>,
                           <<"ENSURE_LIGHT_IS_ON", "DIMMING">>>>,
               rejects |-> <<>>, n |-> 0]
    /\ NoMain

\* time passes until the repeating timer is due
TickRamp ==
    /\ timers # <<>>
    /\ now < MaxTimeRamp
    /\ \A i \in 1..Len(timers) : timers[i].due > now
    /\ now' = NextTime
    /\ UNCHANGED <<last, state, inputTriggerTime, dimmerAction, lightStatus, requests,
                   timers, btn, presses, pressTime, pressCh, rel, log,
                   brightness, timerHandle, nextHandle>>
    /\ UNCHANGED mainVars

\* no button edge: the timer ticks and the requests complete in any order
NextRamp ==
    \/ \E i \in DOMAIN requests : CompleteLoop(i)
    \/ \E i \in DOMAIN timers : TimerFireLoop(i)
    \/ TickRamp

\* a due timer runs, a request in flight completes, time passes
SpecRamp ==
    /\ InitRamp
    /\ [][NextRamp]_vars
    /\ WF_vars(\E i \in DOMAIN requests : CompleteLoop(i))
    /\ WF_vars(\E i \in DOMAIN timers : TimerFireLoop(i))
    /\ WF_vars(TickRamp)

\* C22: a ramp without further button edges ends: eventually the state is IDLE
\* and no timer is left, for good.
C22_RampTerminates == <>[](state = "IDLE" /\ timers = <<>>)

\* the ramp has ended after a late callback had set the brightness back and
\* the boundary value was sent again
C22_Witness ==
    /\ state = "IDLE"
    /\ timers = <<>>
    /\ requests = <<>>
    /\ Len(SelectSeq(log, LAMBDA q : q = [k |-> "brightness", v |-> 100])) >= 2

(* ------------------------------------------------------------------------ *)
(* Credentials that need no lookup (part_000) *)

\* C23: for a binding whose dev.auth in the loaded list is an object or null,
\* no lookup is issued or completes, dev.auth stays what it was, and once no
\* lookup is outstanding the ready callback has run and the binding has its
\* controller, with these credentials.
C23_InlineCredentials ==
    Loaded =>
        \A i \in DOMAIN log[1].value :
            LET auth == log[1].value[i].dev.auth
            IN  auth.t # "string" =>
                    /\ \A j \in DOMAIN lookups : lookups[j].i # i
                    /\ \A k \in DOMAIN log :
                            ~(log[k].ev = "credentials" /\ log[k].i = i)
                    /\ configurations[i].dev.auth = auth
                    /\ lookups = <<>> =>
                            /\ ready = 1
                            /\ i \in DOMAIN controllers
                            /\ controllers[i].deviceConfig.auth = auth

(* ------------------------------------------------------------------------ *)
(* The dim commands of DimmerController (part_000) *)

\* the dim commands sent since the most recent press, in the order sent
Dims == SelectSeq(log, LAMBDA x : x \in {"up", "down", "stop"})

\* C24: when no button is held, no request is in flight and no timer is
\* pending, the last dim command sent since the most recent press, if there is
\* one, is stop.
C24_NotLeftRamping ==
    ((\A c \in Channels : ~btn[c]) /\ Quiet)
        => (Dims = <<>> \/ Dims[Len(Dims)] = "stop")

(* ------------------------------------------------------------------------ *)
(* A release during the status fetch, step loop (part_001) *)

\* the toggle requests sent since the most recent press
TogglesLoop == SelectSeq(log, LAMBDA q : q.k = "toggle")

\* C25: after a press that was released in GET_LIGHT_STATUS at most one toggle
\* has been sent and the machine is not in ENSURE_LIGHT_IS_ON or DIMMING; once
\* the status fetch of the press has completed exactly one toggle has been
\* sent and the machine is not in WAITING_FOR_LONG_PUSH either.
C25_ReleaseDuringFetchLoop ==
    (Released /\ rel[1].pre = "GET_LIGHT_STATUS")
        => /\ Len(TogglesLoop) <= 1
           /\ state \notin {"ENSURE_LIGHT_IS_ON", "DIMMING"}
           /\ (\A i \in DOMAIN requests :
                    ~(requests[i].kind = "status" /\ requests[i].cur))
                => /\ Len(TogglesLoop) = 1
                   /\ state # "WAITING_FOR_LONG_PUSH"

MaxTimeLate == StartTime + MaxTicksLate * TickMs

\* time passes, long enough for the timer of a second press that follows a
\* long press
TickLate ==
    /\ presses > 0
    /\ (timers # <<>> \/ now - pressTime < LONG_PUSH_TIME)
    /\ now < MaxTimeLate
    /\ \A i \in 1..Len(timers) : timers[i].due > now
    /\ now' = NextTime
    /\ UNCHANGED <<last, state, inputTriggerTime, dimmerAction, lightStatus, requests,
                   timers, btn, presses, pressTime, pressCh, rel, log,
                   brightness, timerHandle, nextHandle>>
    /\ UNCHANGED mainVars

NextLate ==
    \/ \E c \in Channels : Press(c)
    \/ \E c \in Channels : Release(c)
    \/ \E i \in DOMAIN requests : Respond(i)
    \/ \E i \in DOMAIN timers : TimerFire(i)
    \/ TickLate

\* every device call succeeds; two presses, each of which can become a long one
SpecLate == Init /\ [][NextLate]_vars

\* C26: a dim request sent by the entry action of DIMMING (its callback does
\* nothing) carries up or down, and one sent since the most recent press
\* carries the direction mapped to the channel of that press; in DIMMING the
\* pending direction is that direction.
C26_DimStartDirection ==
    /\ \A i \in DOMAIN requests :
            (requests[i].kind = "dim" /\ requests[i].cb = "none")
                => /\ requests[i].arg \in {"up", "down"}
                   /\ requests[i].cur => requests[i].arg = Dir
    /\ \A k \in DOMAIN log : log[k] \in {"up", "down"} => log[k] = Dir
    /\ state = "DIMMING" => dimmerAction = Dir

\* two turn=on callbacks have run after the second press, the later one in
\* DIMMING: DIMMING was entered again from DIMMING, and both dim requests carry
\* the direction of the second press
C26_Witness ==
    /\ presses = 2
    /\ last.act = "respond"
    /\ \E k \in DOMAIN last.edges : last.edges[k] = <<"DIMMING", "DIMMING">>
    /\ Dir = "up"
    /\ Len(SelectSeq(log, LAMBDA x : x = "up")) = 2
    /\ \E i \in DOMAIN requests :
            /\ requests[i].kind = "dim" /\ requests[i].cb = "none"
            /\ requests[i].cur /\ requests[i].arg = "up"

(* ------------------------------------------------------------------------ *)
(* The direction of the ramp, step loop (part_001).  brightness is            *)
(* DATA.brightness: what the status fetch reported or the last brightness     *)
(* callback confirmed.                                                        *)

\* a tick of dimmingLoop that has sent a brightness request
LoopSends == LoopStep /\ Len(requests') = Len(requests) + 1

\* C27: a brightness request sent in a darken ramp carries a value not greater
\* than the brightness before the request, one sent in a brighten ramp a value
\* not smaller, whatever the status fetch reported.
C27_RampMonotone ==
    [][LoopSends =>
            LET val == requests'[Len(requests')].val
            IN  /\ dimmerAction = "darken" => val <= brightness
                /\ dimmerAction = "brighten" => val >= brightness]_vars

\* C27 (amended): a brightness request sent in a brighten ramp carries a value
\* not smaller than the brightness before the request; one sent in a darken
\* ramp carries a value not greater than it when that brightness is at least
\* minimumBrightness, and minimumBrightness when it is below.
C27_RampMonotoneFromMinimum ==
    [][LoopSends =>
            LET val == requests'[Len(requests')].val
            IN  /\ dimmerAction = "brighten" => val >= brightness
                /\ (dimmerAction = "darken" /\ brightness >= minimumBrightness)
                        => val <= brightness
                /\ (dimmerAction = "darken" /\ brightness < minimumBrightness)
                        => val = minimumBrightness]_vars

\* the status fetch reported a brightness below the minimum and the first tick
\* of a brighten ramp has sent minimumBrightness
C27_Witness ==
    /\ last.act = "loop"
    /\ state = "DIMMING"
    /\ dimmerAction = "brighten"
    /\ brightness = minimumBrightness
    /\ \E k \in DOMAIN log : log[k] = [k |-> "brightness", v |-> minimumBrightness]

====
